---- MODULE Spec2Model ----
(***************************************************************************)
(* Model of the two orchestration scripts of Brain-to-text-Team60:        *)
(*   download_data.py          download_from_kaggle, download_from_dryad,  *)
(*                             check_existing_files, main                  *)
(*   run_complete_pipeline.py  step 0 (download) and step 1 (pipeline)     *)
(* The environment (credential file, Kaggle responses, archive contents,   *)
(* extraction errors, child exit codes) is chosen nondeterministically.    *)
(***************************************************************************)
EXTENDS Integers, Sequences, FiniteSets, TLC

VARIABLES
    pc,                 \* position of the single thread of control
    entry,              \* what was started: "runner" (the script) or "kaggle" (the function)
    dir,                \* DATA_DIR: manifest name -> "absent" | "file" | "dir"
    zips,               \* DATA_DIR/*.zip: archive name -> contents, or NoZip
    credExists,         \* ~/.kaggle/kaggle.json exists
    KAGGLE_AVAILABLE,   \* the kaggle import succeeded
    download_script,    \* BASE_DIR/download_data.py exists
    attempt,            \* loop variable of the retry loop
    pending,            \* archives the glob yielded and the loop has not visited
    err,                \* str(e) of the exception in flight, as the signatures it contains
    kres,               \* how download_from_kaggle ended: "none", "True", "False", "raised"
    kout,               \* which return statement ended download_from_kaggle
    dryadres,           \* result of download_from_dryad
    mainret,            \* {} or {return value of main}
    dlrc,               \* {} or {returncode of the download subprocess}
    all_exist,          \* {} or {the runner's own all_exist}
    piperc,             \* {} or {returncode of the pipeline subprocess}
    exitCode,           \* {} or {exit status of the started program}
    events              \* history: network calls, sleeps, verifications, spawns

vars == << pc, entry, dir, zips, credExists, KAGGLE_AVAILABLE,
           download_script, attempt, pending, err, kres, kout,
           dryadres, mainret, dlrc, all_exist, piperc, exitCode, events >>

----------------------------------------------------------------------------
(* Program constants *)

REQUIRED_FILES == << "data_train.hdf5", "data_val.hdf5", "data_test.hdf5" >>

Manifest == { REQUIRED_FILES[i] : i \in DOMAIN REQUIRED_FILES }

RunnerSplits == << "train", "val", "test" >>

\* f"data_{split}.hdf5"
SplitFile(split) ==
    CASE split = "train" -> "data_train.hdf5"
      [] split = "val"   -> "data_val.hdf5"
      [] split = "test"  -> "data_test.hdf5"

\* a retry bound one too large
max_retries_Mut == 5 + 1

max_retries == 5

\* a cap below the longest wait
BackoffCap_Mut == 2 * 5

BackoffCap == 60

\* the two substrings the handler searches str(e) for
RateLimitSignatures == { "429", "Too Many Requests" }

----------------------------------------------------------------------------
(* Bounds of the environment *)

\* how many archive names a download request may use
NumZips == 1

\* how many download requests of one run may complete without raising
MaxCompleted == 1

\* the archives a download request may leave in DATA_DIR
ZipNames == 1 .. NumZips

\* an archive that is itself a member of an archive, and what it holds
InnerMember == "inner.zip"

InnerContents == { "data_test.hdf5" }

\* every *.zip name of DATA_DIR: name 0 is DATA_DIR/inner.zip
AllZipNames == 0 .. NumZips

\* what one delivered archive may hold: manifest members, or an archive
ZipContents == { Manifest, { "data_test.hdf5" }, { InnerMember } }

NoZip == { "<no archive>" }

\* manifest files a download request may write unpacked
RawChoices == { {}, Manifest, { "data_train.hdf5", "data_val.hdf5" } }

NoArchives == [ n \in ZipNames |-> NoZip ]

\* what a completed download request leaves in DATA_DIR: unpacked files, or archives
Responses == { [ raw |-> r, zips |-> NoArchives ] : r \in RawChoices }
             \cup { [ raw |-> {}, zips |-> z ] : z \in [ZipNames -> ZipContents \cup {NoZip}] }

\* str(e) of an exception, abstracted to the set of signatures it contains
Messages == SUBSET RateLimitSignatures

\* the fact about a message, whatever the handler makes of it
CarriesSignature(msg) == msg \cap RateLimitSignatures # {}

\* exit codes of the pipeline child, and signals that may kill a child
ChildExitCodes == { 0, 1, 7 }

Signals == { 9 }

----------------------------------------------------------------------------
(* Pure helpers *)

Min(a, b) == IF a < b THEN a ELSE b

RECURSIVE Pow2(_)
Pow2(n) == IF n = 0 THEN 1 ELSE 2 * Pow2(n - 1)

\* the exponent taken one too small
WaitTime_Mut(a) == Min(Pow2(a - 1), BackoffCap)

\* wait_time = min(2 ** attempt, 60)
WaitTime(a) == Min(Pow2(a), BackoffCap)

\* every exception taken for a rate limit
IsRateLimit_Mut(msg) == TRUE

\* "429" in str(e) or "Too Many Requests" in str(e)
IsRateLimit(msg) == "429" \in msg \/ "Too Many Requests" \in msg

\* Path.exists(): true of a regular file and of a directory
Exists(d, f) == d[f] # "absent"

\* one file found is enough
AllFound_Mut(d) == \E i \in DOMAIN REQUIRED_FILES : Exists(d, REQUIRED_FILES[i])

\* all((DATA_DIR / f).exists() for f in REQUIRED_FILES)
AllFound(d) == \A i \in DOMAIN REQUIRED_FILES : Exists(d, REQUIRED_FILES[i])

\* existing = [f for f in REQUIRED_FILES if (DATA_DIR / f).exists()]
Existing(d) == SelectSeq(REQUIRED_FILES, LAMBDA f : Exists(d, f))

\* the comparison of the two lengths made strict
CheckExistingFiles_Mut(d) == Len(Existing(d)) > Len(REQUIRED_FILES)

\* check_existing_files: len(existing) == len(REQUIRED_FILES)
CheckExistingFiles(d) == Len(Existing(d)) = Len(REQUIRED_FILES)

\* any() written for all()
RunnerAllExist_Mut(d) == \E i \in DOMAIN RunnerSplits : Exists(d, SplitFile(RunnerSplits[i]))

\* all((DATA_DIR / f"data_{split}.hdf5").exists() for split in [...])
RunnerAllExist(d) == \A i \in DOMAIN RunnerSplits : Exists(d, SplitFile(RunnerSplits[i]))

\* subprocess returncode of a child: its exit code, or -N when killed by signal N
ReturnCode(how, n) == IF how = "exit" THEN n ELSE 0 - n

\* sys.exit(n): the process's exit status is n modulo 256
ExitStatus(n) == n % 256

Ev(op, n) == [ op |-> op, n |-> n ]

Log(op, n) == Append(events, Ev(op, n))

----------------------------------------------------------------------------
(* Initial states *)

NoErr == { "<no exception>" }

EntryPoints == { "runner", "kaggle" }

EntryPc(e) ==
    CASE e = "runner" -> "r_step0"
      [] e = "kaggle" -> "k_start"

\* archives left in DATA_DIR by an earlier run: inner.zip, the first archive name
InitZips == { z \in [AllZipNames -> ZipContents \cup {NoZip}] :
                /\ z[0] \in { InnerContents, NoZip }
                /\ \A n \in AllZipNames : n > 1 => z[n] = NoZip }

\* DATA_DIR before the run: each manifest name absent or a file; the first name may
\* also be a directory
InitDirs == { d \in [Manifest -> {"absent", "file", "dir"}] :
                \A f \in Manifest : d[f] = "dir" => f = REQUIRED_FILES[1] }

Init ==
    /\ entry \in EntryPoints
    /\ pc = EntryPc(entry)
    /\ dir \in InitDirs
    /\ zips \in InitZips
    /\ credExists \in BOOLEAN
    /\ KAGGLE_AVAILABLE \in BOOLEAN
    /\ download_script \in (IF entry = "runner" THEN BOOLEAN ELSE {TRUE})
    /\ attempt = 0
    /\ pending = {}
    /\ err = NoErr
    /\ kres = "none"
    /\ kout = "none"
    /\ dryadres = "none"
    /\ mainret = {}
    /\ dlrc = {}
    /\ all_exist = {}
    /\ piperc = {}
    /\ exitCode = {}
    /\ events = << >>

----------------------------------------------------------------------------
(* download_from_kaggle *)

\* where control goes when download_from_kaggle returns
KagglePcAfter == IF entry = "kaggle" THEN "done" ELSE "m_kaggle_ret"

\* the credential-file guard left out
KaggleStart_Mut ==
    /\ pc = "k_start"
    /\ IF ~KAGGLE_AVAILABLE
         THEN /\ kres' = "False" /\ kout' = "KaggleUnavailable" /\ pc' = KagglePcAfter
         ELSE /\ pc' = "k_auth" /\ UNCHANGED << kres, kout >>
    /\ UNCHANGED << entry, dir, zips, credExists, KAGGLE_AVAILABLE,
                    download_script, attempt, pending, err,
                    dryadres, mainret, dlrc, all_exist, piperc, exitCode, events >>

\* lines 37-49: the import guard and the credential-file guard
KaggleStart ==
    /\ pc = "k_start"
    /\ IF ~KAGGLE_AVAILABLE
         THEN /\ kres' = "False" /\ kout' = "KaggleUnavailable" /\ pc' = KagglePcAfter
         ELSE IF ~credExists
                THEN /\ kres' = "False" /\ kout' = "AuthMissing" /\ pc' = KagglePcAfter
                ELSE /\ pc' = "k_auth" /\ UNCHANGED << kres, kout >>
    /\ UNCHANGED << entry, dir, zips, credExists, KAGGLE_AVAILABLE,
                    download_script, attempt, pending, err,
                    dryadres, mainret, dlrc, all_exist, piperc, exitCode, events >>

\* lines 52-53: api.authenticate(), inside the outer try only
Authenticate ==
    /\ pc = "k_auth"
    /\ events' = Log("authenticate", 0)
    /\ \/ /\ pc' = "k_for" /\ attempt' = 0 /\ err' = err
       \/ \E msg \in Messages : /\ err' = msg /\ pc' = "k_outer_except" /\ attempt' = attempt
    /\ UNCHANGED << entry, dir, zips, credExists, KAGGLE_AVAILABLE,
                    download_script, pending, kres, kout,
                    dryadres, mainret, dlrc, all_exist, piperc, exitCode >>

\* lines 62-67 and 105: the head of "for attempt in range(max_retries)" and the backoff
\* sleep; the return of line 105 needs the loop to run out, which the returns and the
\* raise of the last iteration never allow
ForLoop ==
    /\ pc = "k_for"
    /\ IF attempt >= max_retries
         THEN /\ kres' = "False" /\ kout' = "LoopExhausted" /\ pc' = KagglePcAfter
              /\ events' = events
         ELSE /\ events' = IF attempt > 0 THEN Log("sleep", WaitTime(attempt)) ELSE events
              /\ pc' = "k_request"
              /\ UNCHANGED << kres, kout >>
    /\ UNCHANGED << entry, dir, zips, credExists, KAGGLE_AVAILABLE,
                    download_script, attempt, pending, err,
                    dryadres, mainret, dlrc, all_exist, piperc, exitCode >>

\* what a download writes into DATA_DIR: unpacked manifest files and archives
Deliver(d, raw) == [ f \in Manifest |-> IF f \in raw /\ d[f] # "dir" THEN "file" ELSE d[f] ]

DeliverZips(z, newz) ==
    [ n \in AllZipNames |-> IF n \in ZipNames /\ newz[n] # NoZip THEN newz[n] ELSE z[n] ]

\* DATA_DIR.glob("*.zip")
GlobZips(z) == { n \in AllZipNames : z[n] # NoZip }

\* zip_ref.extractall(DATA_DIR) for the members written: an archive member lands in
\* DATA_DIR as inner.zip; zip_file.unlink() when the archive z was extracted whole
Unpack(zs, z, members, unlink) ==
    [ n \in AllZipNames |->
        IF n = 0 /\ InnerMember \in members THEN InnerContents
        ELSE IF n = z /\ unlink THEN NoZip
        ELSE zs[n] ]

CompletedRequests == Cardinality({ i \in DOMAIN events : events[i].op = "request_ok" })

\* line 69: api.competition_download_files(competition, path=str(DATA_DIR));
\* a request that raises is taken to leave DATA_DIR as it was
DownloadRequest ==
    /\ pc = "k_request"
    /\ \/ \E resp \in Responses :
          /\ CompletedRequests < MaxCompleted
          /\ dir' = Deliver(dir, resp.raw)
          /\ zips' = DeliverZips(zips, resp.zips)
          /\ events' = Log("request_ok", attempt + 1)
          /\ pending' = GlobZips(zips')
          /\ pc' = "k_extract"
          /\ err' = err
       \/ \E msg \in Messages :
          /\ events' = Log(IF CarriesSignature(msg) THEN "request_rl" ELSE "request_err",
                           attempt + 1)
          /\ err' = msg
          /\ pc' = "k_except"
          /\ UNCHANGED << dir, zips, pending >>
    /\ UNCHANGED << entry, credExists, KAGGLE_AVAILABLE,
                    download_script, attempt, kres, kout,
                    dryadres, mainret, dlrc, all_exist, piperc, exitCode >>

\* the archive extracted and never removed
ExtractZip_Mut ==
    /\ pc = "k_extract"
    /\ pending # {}
    /\ \E z \in pending :
         LET c == zips[z]
             writable == { f \in c : f \in Manifest => dir[f] # "dir" }
         IN  \/ /\ writable = c
                /\ dir' = Deliver(dir, c)
                /\ zips' = Unpack(zips, z, c, FALSE)
                /\ pending' = pending \ {z}
                /\ UNCHANGED << pc, err, events >>
             \/ \E msg \in Messages, written \in { {}, writable } :
                /\ dir' = Deliver(dir, written)
                /\ zips' = Unpack(zips, z, written, FALSE)
                /\ err' = msg
                /\ pc' = "k_except"
                /\ events' = Log(IF CarriesSignature(msg) THEN "extract_rl" ELSE "extract_err",
                                 attempt + 1)
                /\ UNCHANGED << pending >>
    /\ UNCHANGED << entry, credExists, KAGGLE_AVAILABLE,
                    download_script, attempt, kres, kout,
                    dryadres, mainret, dlrc, all_exist, piperc, exitCode >>

\* lines 72-76: one iteration of the extraction loop (extractall, then unlink) over the
\* archives the glob listed; extractall raises when a member's name is taken by a
\* directory, or for any other reason, having written none or all of the members it
\* could write
ExtractZip ==
    /\ pc = "k_extract"
    /\ pending # {}
    /\ \E z \in pending :
         LET c == zips[z]
             writable == { f \in c : f \in Manifest => dir[f] # "dir" }
         IN  \/ /\ writable = c
                /\ dir' = Deliver(dir, c)
                /\ zips' = Unpack(zips, z, c, TRUE)
                /\ pending' = pending \ {z}
                /\ UNCHANGED << pc, err, events >>
             \/ \E msg \in Messages, written \in { {}, writable } :
                /\ dir' = Deliver(dir, written)
                /\ zips' = Unpack(zips, z, written, FALSE)
                /\ err' = msg
                /\ pc' = "k_except"
                /\ events' = Log(IF CarriesSignature(msg) THEN "extract_rl" ELSE "extract_err",
                                 attempt + 1)
                /\ UNCHANGED << pending >>
    /\ UNCHANGED << entry, credExists, KAGGLE_AVAILABLE,
                    download_script, attempt, kres, kout,
                    dryadres, mainret, dlrc, all_exist, piperc, exitCode >>

\* an incomplete result retried like a rate limit
VerifyDownload_Mut ==
    /\ pc = "k_extract"
    /\ pending = {}
    /\ LET all_found == AllFound(dir)
       IN  /\ events' = Log("verify_kaggle", IF all_found THEN 1 ELSE 0)
           /\ IF ~all_found /\ attempt < max_retries - 1
                THEN /\ attempt' = attempt + 1
                     /\ pc' = "k_for"
                     /\ UNCHANGED << kres, kout >>
                ELSE /\ kres' = IF all_found THEN "True" ELSE "False"
                     /\ kout' = IF all_found THEN "AllPresent" ELSE "PartialOrMissing"
                     /\ pc' = KagglePcAfter
                     /\ attempt' = attempt
    /\ UNCHANGED << entry, dir, zips, credExists, KAGGLE_AVAILABLE,
                    download_script, pending, err,
                    dryadres, mainret, dlrc, all_exist, piperc, exitCode >>

\* lines 79-91: all_found and the two returns that follow it
VerifyDownload ==
    /\ pc = "k_extract"
    /\ pending = {}
    /\ LET all_found == AllFound(dir)
       IN  /\ events' = Log("verify_kaggle", IF all_found THEN 1 ELSE 0)
           /\ kres' = IF all_found THEN "True" ELSE "False"
           /\ kout' = IF all_found THEN "AllPresent" ELSE "PartialOrMissing"
    /\ pc' = KagglePcAfter
    /\ UNCHANGED << entry, dir, zips, credExists, KAGGLE_AVAILABLE,
                    download_script, attempt, pending, err,
                    dryadres, mainret, dlrc, all_exist, piperc, exitCode >>

\* line 95: attempt < max_retries - 1
AttemptsRemain(a) == a < max_retries - 1

\* any error with attempts left retried
RateLimitRetry_Mut ==
    /\ pc = "k_except"
    /\ AttemptsRemain(attempt)
    /\ attempt' = attempt + 1
    /\ err' = NoErr
    /\ pc' = "k_for"
    /\ UNCHANGED << entry, dir, zips, credExists, KAGGLE_AVAILABLE,
                    download_script, pending, kres, kout,
                    dryadres, mainret, dlrc, all_exist, piperc, exitCode, events >>

\* lines 94-97: rate limited with attempts left: continue
RateLimitRetry ==
    /\ pc = "k_except"
    /\ IsRateLimit(err)
    /\ AttemptsRemain(attempt)
    /\ attempt' = attempt + 1
    /\ err' = NoErr
    /\ pc' = "k_for"
    /\ UNCHANGED << entry, dir, zips, credExists, KAGGLE_AVAILABLE,
                    download_script, pending, kres, kout,
                    dryadres, mainret, dlrc, all_exist, piperc, exitCode, events >>

\* lines 98-101: rate limited on the last attempt: return False
RateLimitExhausted ==
    /\ pc = "k_except"
    /\ IsRateLimit(err)
    /\ ~AttemptsRemain(attempt)
    /\ kres' = "False"
    /\ kout' = "RateLimitExhausted"
    /\ err' = NoErr
    /\ pc' = KagglePcAfter
    /\ UNCHANGED << entry, dir, zips, credExists, KAGGLE_AVAILABLE,
                    download_script, attempt, pending,
                    dryadres, mainret, dlrc, all_exist, piperc, exitCode, events >>

\* lines 102-103: any other exception: raise, which leaves the loop for the outer handler
Reraise ==
    /\ pc = "k_except"
    /\ ~IsRateLimit(err)
    /\ pc' = "k_outer_except"
    /\ UNCHANGED << entry, dir, zips, credExists, KAGGLE_AVAILABLE,
                    download_script, attempt, pending, err, kres, kout,
                    dryadres, mainret, dlrc, all_exist, piperc, exitCode, events >>

\* lines 107-109: except Exception as e: print(...); return False
OuterExcept ==
    /\ pc = "k_outer_except"
    /\ kres' = "False"
    /\ kout' = "Error"
    /\ err' = NoErr
    /\ pc' = KagglePcAfter
    /\ UNCHANGED << entry, dir, zips, credExists, KAGGLE_AVAILABLE,
                    download_script, attempt, pending,
                    dryadres, mainret, dlrc, all_exist, piperc, exitCode, events >>

----------------------------------------------------------------------------
(* download_data.py: main, download_from_dryad *)

\* line 188: sys.exit(main()); the runner, which spawned the script, sees its returncode
MainPcAfter == "r_dl_ret"

\* lines 153-161: check_existing_files(), then return 0 or call download_from_kaggle
MainCheck ==
    /\ pc = "m_check"
    /\ LET ok == CheckExistingFiles(dir)
       IN  IF ok
             THEN /\ events' = Log("verify_main", 1)
                  /\ mainret' = {0}
                  /\ pc' = MainPcAfter
                  /\ dlrc' = {ReturnCode("exit", ExitStatus(0))}
                  /\ exitCode' = exitCode
             ELSE /\ events' = Append(Log("verify_main", 0), Ev("call_kaggle", 0))
                  /\ pc' = "k_start"
                  /\ UNCHANGED << mainret, exitCode, dlrc >>
    /\ UNCHANGED << entry, dir, zips, credExists, KAGGLE_AVAILABLE,
                    download_script, attempt, pending, err, kres, kout,
                    dryadres, all_exist, piperc >>

\* the secondary source skipped when the primary fails
MainAfterKaggle_Mut ==
    /\ pc = "m_kaggle_ret"
    /\ LET code == IF kres = "True" THEN 0 ELSE 1
       IN  /\ mainret' = {code}
           /\ dlrc' = {ReturnCode("exit", ExitStatus(code))}
    /\ pc' = MainPcAfter
    /\ UNCHANGED << entry, dir, zips, credExists, KAGGLE_AVAILABLE,
                    download_script, attempt, pending, err, kres, kout,
                    dryadres, all_exist, piperc, exitCode, events >>

\* lines 161-166: if download_from_kaggle(): return 0; else call download_from_dryad
MainAfterKaggle ==
    /\ pc = "m_kaggle_ret"
    /\ IF kres = "True"
         THEN /\ mainret' = {0}
              /\ pc' = MainPcAfter
              /\ dlrc' = {ReturnCode("exit", ExitStatus(0))}
              /\ exitCode' = exitCode
              /\ events' = events
         ELSE /\ events' = Log("call_dryad", 0)
              /\ pc' = "d_start"
              /\ UNCHANGED << mainret, exitCode, dlrc >>
    /\ UNCHANGED << entry, dir, zips, credExists, KAGGLE_AVAILABLE,
                    download_script, attempt, pending, err, kres, kout,
                    dryadres, all_exist, piperc >>

\* lines 112-124: download_from_dryad returns False on both paths and requests nothing
DownloadFromDryad ==
    /\ pc = "d_start"
    /\ \E REQUESTS_AVAILABLE \in BOOLEAN :
         dryadres' = IF ~REQUESTS_AVAILABLE THEN "False" ELSE "False"
    /\ pc' = "m_dryad_ret"
    /\ UNCHANGED << entry, dir, zips, credExists, KAGGLE_AVAILABLE,
                    download_script, attempt, pending, err, kres, kout,
                    mainret, dlrc, all_exist, piperc, exitCode, events >>

\* lines 166-184: if download_from_dryad(): return 0; manual instructions; return 1
MainAfterDryad ==
    /\ pc = "m_dryad_ret"
    /\ LET code == IF dryadres = "True" THEN 0 ELSE 1
       IN  /\ mainret' = {code}
           /\ dlrc' = {ReturnCode("exit", ExitStatus(code))}
           /\ exitCode' = exitCode
    /\ pc' = MainPcAfter
    /\ UNCHANGED << entry, dir, zips, credExists, KAGGLE_AVAILABLE,
                    download_script, attempt, pending, err, kres, kout,
                    dryadres, all_exist, piperc, events >>

----------------------------------------------------------------------------
(* run_complete_pipeline.py *)

\* where the download child blocks: time.sleep (line 67), the download request (line 69)
BlockingPcs == { "k_for", "k_request" }

\* lines 31-33 and 52-58: spawn download_data.py, or check the files when it is absent
RunnerStep0 ==
    /\ pc = "r_step0"
    /\ IF download_script
         THEN /\ events' = Log("spawn_download", 0)
              /\ pc' = "m_check"
              /\ UNCHANGED << all_exist, exitCode >>
         ELSE LET ae == RunnerAllExist(dir)
              IN  /\ events' = Log("verify_runner", IF ae THEN 1 ELSE 0)
                  /\ all_exist' = {ae}
                  /\ pc' = IF ae THEN "r_step1" ELSE "done"
                  /\ exitCode' = IF ae THEN exitCode ELSE {ExitStatus(1)}
    /\ UNCHANGED << entry, dir, zips, credExists, KAGGLE_AVAILABLE,
                    download_script, attempt, pending, err, kres, kout,
                    dryadres, mainret, dlrc, piperc >>

\* line 33: the download child is killed by a signal while it blocks;
\* subprocess.run reports -N
DownloadKilled ==
    /\ entry = "runner"
    /\ pc \in BlockingPcs
    /\ \E sig \in Signals : dlrc' = {ReturnCode("signal", sig)}
    /\ pc' = "r_dl_ret"
    /\ UNCHANGED << entry, dir, zips, credExists, KAGGLE_AVAILABLE,
                    download_script, attempt, pending, err, kres, kout,
                    dryadres, mainret, all_exist, piperc, exitCode, events >>

\* the files checked after a failed download, and the verdict ignored
RunnerAfterDownload_Mut ==
    /\ pc = "r_dl_ret"
    /\ \E rc \in dlrc :
         IF rc # 0
           THEN LET ae == RunnerAllExist(dir)
                IN  /\ events' = Log("verify_runner", IF ae THEN 1 ELSE 0)
                    /\ all_exist' = {ae}
                    /\ pc' = "r_step1"
                    /\ exitCode' = exitCode
           ELSE /\ pc' = "r_step1"
                /\ UNCHANGED << events, all_exist, exitCode >>
    /\ UNCHANGED << entry, dir, zips, credExists, KAGGLE_AVAILABLE,
                    download_script, attempt, pending, err, kres, kout,
                    dryadres, mainret, dlrc, piperc >>

\* lines 34-51: on a non-zero returncode check the files once; exit 1 or go on
RunnerAfterDownload ==
    /\ pc = "r_dl_ret"
    /\ \E rc \in dlrc :
         IF rc # 0
           THEN LET ae == RunnerAllExist(dir)
                IN  /\ events' = Log("verify_runner", IF ae THEN 1 ELSE 0)
                    /\ all_exist' = {ae}
                    /\ pc' = IF ae THEN "r_step1" ELSE "done"
                    /\ exitCode' = IF ae THEN exitCode ELSE {ExitStatus(1)}
           ELSE /\ pc' = "r_step1"
                /\ UNCHANGED << events, all_exist, exitCode >>
    /\ UNCHANGED << entry, dir, zips, credExists, KAGGLE_AVAILABLE,
                    download_script, attempt, pending, err, kres, kout,
                    dryadres, mainret, dlrc, piperc >>

\* lines 62-64 and 66-68: spawn run_full_pipeline.py, or exit 1 when it is absent
RunnerStep1 ==
    /\ pc = "r_step1"
    /\ \E pipeline_script \in BOOLEAN :
       IF pipeline_script
         THEN /\ events' = Log("spawn_pipeline", 0)
              /\ pc' = "r_pipeline"
              /\ exitCode' = exitCode
         ELSE /\ pc' = "done"
              /\ exitCode' = {ExitStatus(1)}
              /\ events' = Log("pipeline_not_found", 0)
    /\ UNCHANGED << entry, dir, zips, credExists, KAGGLE_AVAILABLE,
                    download_script, attempt, pending, err, kres, kout,
                    dryadres, mainret, dlrc, all_exist, piperc >>

\* every failure of the child reported as 1
RunnerExit_Mut(rc) == IF rc = 0 THEN 0 ELSE 1

\* line 65: sys.exit(result.returncode)
RunnerExit(rc) == ExitStatus(rc)

\* lines 64-65: the pipeline child ends (exit code, or killed); the runner exits with it
PipelineEnds ==
    /\ pc = "r_pipeline"
    /\ \E rc \in { ReturnCode("exit", c) : c \in ChildExitCodes }
                 \cup { ReturnCode("signal", sig) : sig \in Signals } :
         /\ piperc' = {rc}
         /\ exitCode' = {RunnerExit(rc)}
    /\ pc' = "done"
    /\ UNCHANGED << entry, dir, zips, credExists, KAGGLE_AVAILABLE,
                    download_script, attempt, pending, err, kres, kout,
                    dryadres, mainret, dlrc, all_exist, events >>

----------------------------------------------------------------------------
(* Specification *)

Next ==
    \/ KaggleStart
    \/ Authenticate
    \/ ForLoop
    \/ DownloadRequest
    \/ ExtractZip
    \/ VerifyDownload
    \/ RateLimitRetry
    \/ RateLimitExhausted
    \/ Reraise
    \/ OuterExcept
    \/ MainCheck
    \/ MainAfterKaggle
    \/ DownloadFromDryad
    \/ MainAfterDryad
    \/ RunnerStep0
    \/ DownloadKilled
    \/ RunnerAfterDownload
    \/ RunnerStep1
    \/ PipelineEnds

Spec == Init /\ [][Next]_vars

----------------------------------------------------------------------------
(* Reading the history *)

IsRequest(e) == e.op \in { "request_ok", "request_rl", "request_err" }

IsNetworkCall(e) == e.op = "authenticate" \/ IsRequest(e)

\* what download_from_kaggle does between its call and its return
IsKaggleStep(e) == \/ IsNetworkCall(e)
                   \/ e.op \in { "sleep", "extract_rl", "extract_err", "verify_kaggle" }

IsVerification(e) == e.op \in { "verify_main", "verify_kaggle", "verify_runner" }

RequestIdx == { i \in DOMAIN events : IsRequest(events[i]) }

NumRequests == Cardinality(RequestIdx)

\* the 1-indexed number of the request logged at position i
RequestOrdinal(i) == Cardinality({ j \in RequestIdx : j <= i })

Happened(op) == \E i \in DOMAIN events : events[i].op = op

HappenedWith(op, n) == \E i \in DOMAIN events : events[i] = Ev(op, n)

KaggleReturned == kres # "none"

\* every manifest name is an entry of DATA_DIR, read off the directory itself
AllPresentNow == \A f \in Manifest : dir[f] \in { "file", "dir" }

----------------------------------------------------------------------------
(* C1: retry bound *)

KagglePcs == { "k_start", "k_auth", "k_for", "k_request", "k_extract", "k_except",
               "k_outer_except" }

AllRequestsRateLimited ==
    /\ NumRequests >= 1
    /\ \A i \in RequestIdx : events[i].op = "request_rl"

\* a number that every step of download_from_kaggle makes smaller
LoopWeight == NumZips + 7

KaggleMeasure ==
    CASE pc = "k_start"        -> (max_retries + 1) * LoopWeight + 3
      [] pc = "k_auth"         -> (max_retries + 1) * LoopWeight + 2
      [] pc = "k_for"          -> (max_retries - attempt) * LoopWeight + NumZips + 6
      [] pc = "k_request"      -> (max_retries - attempt) * LoopWeight + NumZips + 5
      [] pc = "k_extract"      -> (max_retries - attempt) * LoopWeight + Cardinality(pending) + 3
      [] pc = "k_except"       -> (max_retries - attempt) * LoopWeight + 2
      [] pc = "k_outer_except" -> 1
      [] OTHER                 -> 0

C1_Inv ==
    /\ NumRequests <= 5
    /\ (KaggleReturned /\ AllRequestsRateLimited)
         => (NumRequests = 5 /\ kres = "False" /\ kout = "RateLimitExhausted")

MeasureDecreases ==
    (pc \in KagglePcs) => (KaggleMeasure' < KaggleMeasure /\ KaggleMeasure' >= 0)

C1_Terminates == [][MeasureDecreases]_vars

\* C1: when every download request raises a rate-limit error, download_from_kaggle
\* issues exactly 5 requests and returns False (rate limit exhausted); no run issues a
\* 6th request, and every step of the function lowers a non-negative measure, so it
\* terminates.
C1_RetryBound == []C1_Inv /\ C1_Terminates

C1_Witness == KaggleReturned /\ AllRequestsRateLimited /\ NumRequests = 5 /\ kres = "False"

----------------------------------------------------------------------------
(* C2: errors without a rate-limit signature *)

OtherErrorAt(i) == events[i].op \in { "request_err", "extract_err" }

OtherErrorRaised == \E i \in DOMAIN events : OtherErrorAt(i)

\* the claim as stated: the error leaves download_from_kaggle as an exception
C2_Propagated == (KaggleReturned /\ OtherErrorRaised) => kres = "raised"

\* C2 (amended): an error without a rate-limit signature raised by the download request
\* or by an extraction is not retried (no sleep, request, extraction or verification
\* follows it); it is re-raised out of the retry loop, caught by the outer handler of
\* download_from_kaggle, and the function returns False.
C2_NotRetriedReturnsFalse ==
    \A i \in DOMAIN events :
        OtherErrorAt(i) =>
            /\ \A j \in DOMAIN events : j > i => ~IsKaggleStep(events[j])
            /\ \/ pc \in { "k_except", "k_outer_except" } /\ ~KaggleReturned
               \/ kres = "False" /\ kout = "Error"

C2_Witness == KaggleReturned /\ Happened("request_err") /\ kres = "False" /\ kout = "Error"

----------------------------------------------------------------------------
(* C3: backoff schedule *)

\* C3: no sleep precedes the first download request, and the event just before the
\* k-th request, 2 <= k <= 5, is a sleep of min(2^(k-1), 60) seconds.
C3_Backoff ==
    \A i \in RequestIdx :
        LET k == RequestOrdinal(i)
        IN  /\ k <= 5
            /\ k = 1 => \A j \in 1 .. (i - 1) : events[j].op # "sleep"
            /\ k >= 2 => /\ i > 1
                         /\ events[i - 1] = Ev("sleep", Min(Pow2(k - 1), 60))

C3_Witness == NumRequests = 5 /\ HappenedWith("sleep", 16) /\ HappenedWith("sleep", 2)

----------------------------------------------------------------------------
(* C4: an incomplete result is not retried *)

SetMax(S) == CHOOSE x \in S : \A y \in S : y <= x

LastRequest == SetMax(RequestIdx)

ExtractionRaisedAfter(i) ==
    \E j \in DOMAIN events : j > i /\ events[j].op \in { "extract_rl", "extract_err" }

----------------------------------------------------------------------------
(* C5: no credential file, no network call *)

\* C5: when ~/.kaggle/kaggle.json does not exist, download_from_kaggle never calls
\* authenticate nor issues a download request, and returns False: the AuthMissing
\* return, unless the import guard before it already returned.
C5_NoCredentialNoNetwork ==
    ~credExists =>
        /\ \A i \in DOMAIN events : ~IsNetworkCall(events[i])
        /\ KaggleReturned =>
             /\ kres = "False"
             /\ kout = IF KAGGLE_AVAILABLE THEN "AuthMissing" ELSE "KaggleUnavailable"

C5_Witness == ~credExists /\ KAGGLE_AVAILABLE /\ KaggleReturned /\ kout = "AuthMissing"

----------------------------------------------------------------------------
(* C6: idempotence of main *)

C6_Inv ==
    HappenedWith("verify_main", 1) =>
        /\ \A i \in DOMAIN events :
             ~IsNetworkCall(events[i]) /\ events[i].op \notin { "call_kaggle", "call_dryad" }
        /\ mainret = {0}
        /\ kres = "none"
        /\ AllPresentNow

C6_Step ==
    /\ (pc = "m_check" /\ AllPresentNow)
         => (mainret' = {0} /\ dlrc' = {0} /\ dir' = dir /\ zips' = zips)
    /\ HappenedWith("verify_main", 1) => (dir' = dir /\ zips' = zips)

\* C6: when every manifest name exists at the start of main, main returns 0 without
\* calling download_from_kaggle or download_from_dryad, no network call is ever made,
\* and DATA_DIR stays as it was.
C6_Idempotent == []C6_Inv /\ [][C6_Step]_vars

C6_Witness == HappenedWith("verify_main", 1) /\ pc = "done"

----------------------------------------------------------------------------
(* C7: exit-code propagation *)

\* C7: once the pipeline child was spawned and the runner has exited, the runner's
\* exit status is the child's exit code c, for every c the child exits with.
C7_ExitCodePropagated ==
    (pc = "done" /\ Happened("spawn_pipeline"))
        => /\ piperc # {}
           /\ \A c \in piperc : c >= 0 => exitCode = {c}

C7_Witness == pc = "done" /\ Happened("spawn_pipeline") /\ piperc = {7} /\ exitCode = {7}

----------------------------------------------------------------------------
(* C8: order of the fetch policy in main *)

\* C8: download_from_dryad is called exactly when check_existing_files failed and
\* download_from_kaggle returned False, whatever its failure was; main returns 1 when
\* both sources failed, and 0 only after a verification that found every manifest name.
C8_FetchPolicy ==
    /\ Happened("call_dryad") => (HappenedWith("verify_main", 0) /\ kres = "False")
    /\ pc \in { "d_start", "m_dryad_ret" } => Happened("call_dryad")
    /\ mainret # {} =>
         /\ Happened("call_dryad") <=> (HappenedWith("verify_main", 0) /\ kres # "True")
         /\ kres = "False" => mainret = {1}
         /\ mainret = {1} => (kres = "False" /\ dryadres = "False")
         /\ mainret = {0} => /\ \/ HappenedWith("verify_main", 1)
                                \/ HappenedWith("verify_kaggle", 1)
                             /\ AllPresentNow
         /\ mainret \subseteq { 0, 1 }

C8_Witness == mainret = {1} /\ kout = "RateLimitExhausted" /\ Happened("call_dryad")

----------------------------------------------------------------------------
(* C9: the runner after a failed download step *)

NumRunnerVerifies == Cardinality({ i \in DOMAIN events : events[i].op = "verify_runner" })

ReachedStep1 ==
    \/ pc \in { "r_step1", "r_pipeline" }
    \/ pc = "done" /\ (Happened("spawn_pipeline") \/ Happened("pipeline_not_found"))

\* C9: after the download child ended with a non-zero returncode the runner checks the
\* manifest files exactly once; if one is absent it exits 1 and the pipeline is never
\* spawned, and if all are there it goes on to the pipeline step.
C9_Gating ==
    \A rc \in dlrc :
        (rc # 0 /\ pc # "r_dl_ret")
            => /\ NumRunnerVerifies = 1
               /\ IF AllPresentNow
                    THEN ReachedStep1
                    ELSE /\ pc = "done"
                         /\ exitCode = {1}
                         /\ ~Happened("spawn_pipeline")
                         /\ ~Happened("pipeline_not_found")

C9_Witness ==
    /\ \E rc \in dlrc : rc # 0
    /\ pc = "done" /\ exitCode = {1} /\ ~AllPresentNow /\ NumRunnerVerifies = 1

----------------------------------------------------------------------------
(* C10: what exit code 0 means *)

VerificationIdx == { i \in DOMAIN events : IsVerification(events[i]) }

\* C10: in every run of the runner the pipeline is spawned only if the last
\* verification found every manifest name and every name is in DATA_DIR; the runner
\* exits 0 only if, moreover, the pipeline was spawned and returned 0.
C10_ExitZero ==
    entry = "runner" =>
        /\ Happened("spawn_pipeline")
             => /\ VerificationIdx # {}
                /\ events[SetMax(VerificationIdx)].n = 1
                /\ AllPresentNow
        /\ (pc = "done" /\ exitCode = {0})
             => /\ Happened("spawn_pipeline")
                /\ piperc = {0}

C10_Witness ==
    /\ entry = "runner" /\ pc = "done" /\ exitCode = {0}
    /\ Happened("request_ok") /\ HappenedWith("verify_kaggle", 1)

----------------------------------------------------------------------------
(* C11: the verdict of the verification *)

AllRegularFiles == \A f \in Manifest : dir[f] = "file"

\* the history ends with a verification: DATA_DIR is still what that verification saw
JustVerified == events # << >> /\ IsVerification(events[Len(events)])

\* C11: the all-present verdict (check_existing_files, all_found, the runner's
\* all_exist) is true if and only if every manifest name is a regular file directly
\* under DATA_DIR; a directory of that name does not count.
C11_VerdictIffRegularFiles ==
    JustVerified => (events[Len(events)].n = 1 <=> AllRegularFiles)

----------------------------------------------------------------------------
(* C12: archives are transient *)

\* the request and every extraction of the attempt completed: line 79 runs next
AboutToVerify == pc = "k_extract" /\ pending = {}

\* archives in DATA_DIR that the listing of line 72 does not hold (any more)
Unlisted == GlobZips(zips) \ pending

\* C12 as stated: when the verification of an attempt runs, no archive file
\* remains in DATA_DIR.
C12_NoArchiveAtVerification == AboutToVerify => GlobZips(zips) = {}

\* during the loop of lines 72-76 every listed archive still exists, and an
\* archive outside the listing is none of the downloaded ones
C12_Listed ==
    pc = "k_extract" =>
        /\ pending \subseteq GlobZips(zips)
        /\ \A n \in Unlisted : n \notin ZipNames

C12_Step ==
    /\ (pc = "k_request" /\ pc' = "k_extract") => pending' = GlobZips(zips')
    /\ (pc = "k_extract" /\ pc' = "k_extract" /\ pending' # pending) =>
          \E z \in pending :
              /\ pending' = pending \ {z}
              /\ zips'[z] = NoZip
              /\ \A f \in zips[z] \cap Manifest : dir'[f] # "absent"
              /\ \A n \in AllZipNames \ {z} :
                    zips'[n] # zips[n] => (InnerMember \in zips[z] /\ n \notin ZipNames)
    /\ \A f \in Manifest : dir[f] # "absent" => dir'[f] # "absent"
    /\ (AboutToVerify /\ pc' # pc) =>
          /\ kres' = "True" <=> \A f \in Manifest : dir[f] # "absent"
          /\ zips' = zips

\* C12, amended: the listing of line 72 is every archive in DATA_DIR after the
\* download; each listed archive is extracted into DATA_DIR and deleted, so when the
\* verification runs none of the listed archives remains. An archive can remain
\* only if it was unpacked from a listed archive during the loop (the listing is
\* not refreshed). The members of an extracted archive stay in DATA_DIR, so an
\* archive holding the three manifest files ends the attempt all-present, True.
C12_ListedArchivesRemoved == []C12_Listed /\ [][C12_Step]_vars

\* success returned after an archive was extracted and deleted; the nested archive
\* it held is still in DATA_DIR
C12_Witness ==
    /\ kres = "True" /\ HappenedWith("verify_kaggle", 1)
    /\ \A n \in ZipNames : zips[n] = NoZip
    /\ Unlisted # {}

----------------------------------------------------------------------------
(* C13: only rate limiting triggers a retry *)

\* the request before the one logged at position i
PrevRequest(i) == SetMax({ j \in RequestIdx : j < i })

\* the attempt that began with the request at p and ended before position i was rate
\* limited: its request, or an extraction after it, raised with a rate-limit signature
AttemptRateLimited(p, i) ==
    \/ events[p].op = "request_rl"
    \/ /\ events[p].op = "request_ok"
       /\ \E j \in (p + 1) .. (i - 1) : events[j].op = "extract_rl"

----------------------------------------------------------------------------
(* C14: success short-circuits and is sound *)

\* C14: download_from_kaggle returns True if and only if the verification of line 79
\* ran with every manifest name present; that verification belongs to an attempt
\* whose request and extractions completed without raising, and every attempt before
\* it was rate limited; no request, sleep or other step of the function follows it.
C14_SuccessSound ==
    /\ KaggleReturned => (kres = "True" <=> HappenedWith("verify_kaggle", 1))
    /\ kres = "True" => AllPresentNow
    /\ (events # << >> /\ events[Len(events)].op = "verify_kaggle")
          => (events[Len(events)].n = 1 <=> AllPresentNow)
    /\ \A i \in DOMAIN events :
          events[i] = Ev("verify_kaggle", 1) =>
              /\ kres = "True" /\ kout = "AllPresent"
              /\ \A j \in DOMAIN events : j > i => ~IsKaggleStep(events[j])
              /\ NumRequests >= 1
              /\ LastRequest < i
              /\ events[LastRequest].op = "request_ok"
              /\ ~ExtractionRaisedAfter(LastRequest)
              /\ \A q \in RequestIdx :
                    RequestOrdinal(q) >= 2 => AttemptRateLimited(PrevRequest(q), q)

\* True returned by the third attempt, after two rate-limited ones
C14_Witness ==
    /\ kres = "True" /\ NumRequests = 3
    /\ HappenedWith("request_rl", 1) /\ HappenedWith("request_rl", 2)
    /\ HappenedWith("request_ok", 3)

----------------------------------------------------------------------------
(* C15: the backoff of one call *)

SleepIdx == { i \in DOMAIN events : events[i].op = "sleep" }

\* the 1-indexed number of the sleep logged at position i
SleepOrdinal(i) == Cardinality({ j \in SleepIdx : j <= i })

RECURSIVE SleepTotal(_)
\* seconds slept by the first i events
SleepTotal(i) ==
    IF i = 0 THEN 0
    ELSE SleepTotal(i - 1) + (IF events[i].op = "sleep" THEN events[i].n ELSE 0)

\* C15: the k-th sleep of a call lasts 2^k seconds, k <= 4: the sleeps are 2, 4, 8,
\* 16 in this order, each below the cap of 60, and they add up to at most 30 seconds.
C15_SleepSchedule ==
    /\ \A i \in SleepIdx :
          /\ SleepOrdinal(i) <= 4
          /\ events[i].n = Pow2(SleepOrdinal(i))
          /\ events[i].n \in { 2, 4, 8, 16 }
          /\ events[i].n < 60
    /\ SleepTotal(Len(events)) <= 30

\* a call that slept 2, 4, 8 and 16 seconds: 30 in all
C15_Witness ==
    /\ KaggleReturned /\ Cardinality(SleepIdx) = 4
    /\ SleepTotal(Len(events)) = 30

====
